---- MODULE Spec2Model ----
(***************************************************************************)
(* skbio/sequence/_nucleotide_sequence.py: NucleotideSequence.complement,  *)
(* reverse_complement, is_reverse_complement, and the module-level motif   *)
(* registry with the purine-run and pyrimidine-run detectors.              *)
(*                                                                         *)
(* A symbol string is a TLA+ sequence of one-character strings.  An        *)
(* optional value (Python None or a value) is a sequence of length 0 or 1. *)
(* Match spans are pairs <<start, end>>, 0-based and half-open, as the     *)
(* Python slices are.                                                      *)
(***************************************************************************)
EXTENDS Integers, Sequences, FiniteSets, TLC

VARIABLES pc, heap, _motifs, self, call, ret

vars == <<pc, heap, _motifs, self, call, ret>>

-----------------------------------------------------------------------------
(* Bounds of the model *)

MaxLen == 2

MaxQual == 1

MaxOtherLen == 1

MaxMotifLen == 3

MaxMinLength == 2

DefaultMinLength == 4

-----------------------------------------------------------------------------
(* Generic helpers *)

None == <<>>

Some(v) == <<v>>

Reverse(q) == [i \in 1..Len(q) |-> q[Len(q) + 1 - i]]

Range(q) == {q[i] : i \in 1..Len(q)}

Strings(S, n) == UNION {[1..k -> S] : k \in 0..n}

Min(S) == CHOOSE x \in S : \A y \in S : x <= y

-----------------------------------------------------------------------------
(* Symbols and the inputs the calls are made on *)

Symbols == {"A", "C", "G", "T", "U"}

MotifSymbols == {"A", "G", "R", "C", "T", "U", "Y", "N"}

Variants == {"NucleotideSequence", "DNA"}

Metadata == {[id |-> "", description |-> ""], [id |-> "s", description |-> "d"]}

Qualities(n) == {None} \cup {Some(q) : q \in [1..n -> 0..MaxQual]}

ExampleInputs ==
    { [string |-> <<"T","T","C","A","T","T">>, quality |-> Some(<<0,1,2,3,4,5>>)],
      [string |-> <<"A","C","G","T">>, quality |-> None] }

MotifExamples ==
    { <<"A","G","G","G","G","G","T">>,
      <<"C","C","A","A","A","A","N","Y","U","T","C">> }

MkSeq(variant, string, quality, meta) ==
    [variant |-> variant, string |-> string, quality |-> quality,
     id |-> meta.id, description |-> meta.description]

Inputs ==
    { MkSeq(v, s, q, m) : v \in Variants, m \in Metadata,
        <<s, q>> \in ( { <<x.string, x.quality>> : x \in ExampleInputs } \cup
                       UNION { {<<t, u>> : u \in Qualities(Len(t))} : t \in Strings(Symbols, MaxLen) } ) }

MotifInputs ==
    { MkSeq(v, s, None, [id |-> "", description |-> ""]) :
        v \in Variants, s \in Strings(MotifSymbols, MaxMotifLen) \cup MotifExamples }

-----------------------------------------------------------------------------
(* complement_map of each family *)

DNA_complement_map ==
    [kind |-> "dict",
     entries |-> [c \in {"A", "C", "G", "T"} |->
                    CASE c = "A" -> "T" [] c = "T" -> "A"
                      [] c = "C" -> "G" [] c = "G" -> "C"]]

(* NucleotideSequence.complement_map: `return set()` *)
complement_map(variant) ==
    IF variant = "NucleotideSequence"
    THEN [kind |-> "set", entries |-> <<>>]
    ELSE DNA_complement_map

(* complement_map[str(base)]: a set is not subscriptable, a dict raises   *)
(* KeyError on a missing key.                                              *)
Lookup(map, base) ==
    IF map.kind # "dict" THEN [status |-> "TypeError", value |-> base]
    ELSE IF base \notin DOMAIN map.entries THEN [status |-> "KeyError", value |-> base]
    ELSE [status |-> "ok", value |-> map.entries[base]]

-----------------------------------------------------------------------------
(* Sequence collaborators *)

_has_quality(s) == s.quality # None

_to(s, sequence, quality) == [s EXCEPT !.string = sequence, !.quality = quality]

-----------------------------------------------------------------------------
(* NucleotideSequence.complement *)

(* Variants of the definitions below, each with one slip in it *)
seq_iterator_forward(s, reverse) == s.string

seq_iterator_short(s, reverse) ==
    IF reverse THEN SubSeq(Reverse(s.string), 1, Len(s.string) - 1) ELSE s.string

seq_iterator(s, reverse) == IF reverse THEN Reverse(s.string) ELSE s.string

ResultQuality_unreversed(s, reverse) == s.quality

ResultQuality(s, reverse) ==
    IF _has_quality(s) /\ reverse THEN Some(Reverse(s.quality[1])) ELSE s.quality

(* The outcome of a call: the receiver after the call, how the call ended *)
(* ("ok" or the exception raised), the returned value if any, the key the *)
(* exception carries, and how many complements were computed on the way.  *)
Returned(s, v, n) ==
    [self |-> s, status |-> "ok", value |-> Some(v), key |-> None, complements |-> n]

Raised(s, exc, k, n) ==
    [self |-> s, status |-> exc, value |-> None, key |-> k, complements |-> n]

complement_inplace(s, reverse) ==
    LET map == complement_map(s.variant)
        it == seq_iterator(s, reverse)
        looked == [i \in 1..Len(it) |-> Lookup(map, it[i])]
        failed == {i \in 1..Len(it) : looked[i].status # "ok"}
        mutated == [s EXCEPT !.quality = ResultQuality(s, reverse)]
    IN  IF failed # {}
        THEN Raised(s, looked[Min(failed)].status, Some(it[Min(failed)]), 1)
        ELSE Returned(mutated, _to(mutated, [i \in 1..Len(it) |-> looked[i].value],
                                   mutated.quality), 1)

complement(s, reverse) ==
    LET map == complement_map(s.variant)
        it == seq_iterator(s, reverse)
        looked == [i \in 1..Len(it) |-> Lookup(map, it[i])]
        failed == {i \in 1..Len(it) : looked[i].status # "ok"}
    IN  IF failed # {}
        THEN Raised(s, looked[Min(failed)].status, Some(it[Min(failed)]), 1)
        ELSE Returned(s, _to(s, [i \in 1..Len(it) |-> looked[i].value],
                             ResultQuality(s, reverse)), 1)

reverse_complement(s) == complement(s, TRUE)

-----------------------------------------------------------------------------
(* NucleotideSequence.is_reverse_complement *)

OtherSymbols == {"A", "C", "T", "!"}

MkOther(kind, string, quality, id) ==
    [kind |-> kind, string |-> string, quality |-> quality, id |-> id]

NoOther == MkOther("none", <<>>, None, "")

OtherStrings ==
    Strings(OtherSymbols, MaxOtherLen) \cup
    { <<"A","C","G","T">>, <<"A","A","T","G","A","A">>, <<"A","A","T","G","T","T">> }

Others ==
    { MkOther("str", t, None, "") : t \in OtherStrings } \cup
    { MkOther("Sequence", t, Some([i \in 1..Len(t) |-> 0]), "o") : t \in OtherStrings } \cup
    { MkOther("int", <<>>, None, "") }

(* Coercion of the argument: a string or a sequence becomes a sequence,   *)
(* anything else is refused.                                               *)
_munge_to_sequence(s, other) ==
    IF other.kind \in {"str", "Sequence"}
    THEN [status |-> "ok", value |-> other]
    ELSE [status |-> "TypeError", value |-> other]

is_reverse_complement_eager(s, other) ==
    LET munged == _munge_to_sequence(s, other)
        rc == reverse_complement(s)
    IN  IF munged.status # "ok" THEN Raised(s, munged.status, None, 0)
        ELSE IF rc.status # "ok" THEN rc
        ELSE IF Len(s.string) # Len(munged.value.string)
             THEN Returned(rc.self, FALSE, rc.complements)
        ELSE Returned(rc.self, rc.value[1].string = munged.value.string,
                      rc.complements)

is_reverse_complement_quality(s, other) ==
    LET munged == _munge_to_sequence(s, other)
    IN  IF munged.status # "ok" THEN Raised(s, munged.status, None, 0)
        ELSE IF Len(s.string) # Len(munged.value.string) THEN Returned(s, FALSE, 0)
        ELSE LET rc == reverse_complement(s)
             IN  IF rc.status # "ok" THEN rc
                 ELSE Returned(rc.self,
                               /\ rc.value[1].string = munged.value.string
                               /\ rc.value[1].quality = munged.value.quality,
                               rc.complements)

is_reverse_complement(s, other) ==
    LET munged == _munge_to_sequence(s, other)
    IN  IF munged.status # "ok" THEN Raised(s, munged.status, None, 0)
        ELSE IF Len(s.string) # Len(munged.value.string) THEN Returned(s, FALSE, 0)
        ELSE LET rc == reverse_complement(s)
             IN  IF rc.status # "ok" THEN rc
                 ELSE Returned(rc.self, rc.value[1].string = munged.value.string,
                               rc.complements)

-----------------------------------------------------------------------------
(* Motif detectors *)

(* re.finditer over "([class]{min,})": leftmost, greedy, non-overlapping  *)
RunEnd(str, class, i) ==
    Min({j \in i..(Len(str) + 1) : j = Len(str) + 1 \/ str[j] \notin class})

RECURSIVE Finditer(_, _, _)
Finditer(str, pattern, pos) ==
    IF pos > Len(str) THEN <<>>
    ELSE LET e == RunEnd(str, pattern.class, pos)
         IN  IF e - pos >= pattern.min /\ e > pos
             THEN <<(<<pos - 1, e - 1>>)>> \o Finditer(str, pattern, e)
             ELSE Finditer(str, pattern, pos + 1)

slices_from_regex(s, pattern) == Finditer(s.string, pattern, 1)

_motif_purine_run_AG(sequence, min_length) ==
    slices_from_regex(sequence, [class |-> {"A", "G"}, min |-> min_length])

_motif_purine_run(sequence, min_length) ==
    slices_from_regex(sequence, [class |-> {"A", "G", "R"}, min |-> min_length])

_motif_pyrimidine_run_any_length(sequence, min_length) ==
    slices_from_regex(sequence, [class |-> {"C", "T", "U", "Y"}, min |-> 1])

_motif_pyrimidine_run(sequence, min_length) ==
    slices_from_regex(sequence, [class |-> {"C", "T", "U", "Y"}, min |-> min_length])

Detector(name, sequence, min_length) ==
    CASE name = "purine-run" -> _motif_purine_run(sequence, min_length)
      [] name = "pyrimidine-run" -> _motif_pyrimidine_run(sequence, min_length)
      [] OTHER -> <<>>

RECURSIVE Chain(_, _, _)
Chain(names, sequence, min_length) ==
    IF names = <<>> THEN <<>>
    ELSE Detector(Head(names), sequence, min_length) \o
         Chain(Tail(names), sequence, min_length)

find_motifs(registry, s, name, min_length) ==
    IF name = "None" THEN Returned(s, Chain(registry, s, min_length), 0)
    ELSE IF name \notin Range(registry) THEN Raised(s, "UnknownMotif", Some(name), 0)
    ELSE Returned(s, Detector(name, s, min_length), 0)

-----------------------------------------------------------------------------
(* The motif registries: `heap` maps each registry object to its names in *)
(* registration order; parent_motifs and _motifs are references into it.  *)

parent_motifs == 1

ParentRegistry == <<>>

MiniRegistry_copy(h, ref) ==
    LET new == CHOOSE n \in 1..(Cardinality(DOMAIN h) + 1) : n \notin DOMAIN h
    IN  [heap |-> h @@ (new :> h[ref]), ref |-> new]

MiniRegistry_call(h, ref, name) ==
    IF name \in Range(h[ref]) THEN h ELSE [h EXCEPT ![ref] = Append(@, name)]

-----------------------------------------------------------------------------
(* Module initialisation *)

NoCall ==
    [op |-> "none", reverse |-> FALSE, other |-> NoOther, name |-> "None",
     min_length |-> DefaultMinLength]

MkRet(r) ==
    [status |-> r.status, value |-> r.value, key |-> r.key,
     complements |-> r.complements]

NoRet == [status |-> "none", value |-> None, key |-> None, complements |-> 0]

InitCommon ==
    /\ pc = "copy"
    /\ heap = (parent_motifs :> ParentRegistry)
    /\ _motifs = 0
    /\ call = NoCall
    /\ ret = NoRet

Init == InitCommon /\ self \in Inputs

InitMotif == InitCommon /\ self \in MotifInputs

ModuleCopy_aliased ==
    /\ pc = "copy"
    /\ heap' = heap /\ _motifs' = parent_motifs
    /\ pc' = "purine-run"
    /\ UNCHANGED <<self, call, ret>>

(* _motifs = parent_motifs.copy() *)
ModuleCopy ==
    /\ pc = "copy"
    /\ LET r == MiniRegistry_copy(heap, parent_motifs)
       IN  heap' = r.heap /\ _motifs' = r.ref
    /\ pc' = "purine-run"
    /\ UNCHANGED <<self, call, ret>>

(* @_motifs("purine-run") *)
RegisterPurineRun ==
    /\ pc = "purine-run"
    /\ heap' = MiniRegistry_call(heap, _motifs, "purine-run")
    /\ pc' = "pyrimidine-run"
    /\ UNCHANGED <<_motifs, self, call, ret>>

(* @_motifs("pyrimidine-run") *)
RegisterPyrimidineRun ==
    /\ pc = "pyrimidine-run"
    /\ heap' = MiniRegistry_call(heap, _motifs, "pyrimidine-run")
    /\ pc' = "interpolate"
    /\ UNCHANGED <<_motifs, self, call, ret>>

(* _motifs.interpolate(NucleotideSequence, "find_motifs") *)
Interpolate ==
    /\ pc = "interpolate"
    /\ pc' = "ready"
    /\ UNCHANGED <<heap, _motifs, self, call, ret>>

-----------------------------------------------------------------------------
(* Calls on the sequence once the module is loaded *)

Complement ==
    /\ pc = "ready"
    /\ \E reverse \in BOOLEAN :
         LET r == complement(self, reverse)
         IN  /\ self' = r.self
             /\ call' = [NoCall EXCEPT !.op = "complement", !.reverse = reverse]
             /\ ret' = MkRet(r)
    /\ pc' = "returned"
    /\ UNCHANGED <<heap, _motifs>>

ReverseComplement ==
    /\ pc = "ready"
    /\ LET r == reverse_complement(self)
       IN  /\ self' = r.self
           /\ call' = [NoCall EXCEPT !.op = "reverse_complement"]
           /\ ret' = MkRet(r)
    /\ pc' = "returned"
    /\ UNCHANGED <<heap, _motifs>>

(* s.reverse_complement().reverse_complement(): the second call is made   *)
(* on the sequence the first one returned.                                 *)
ReverseComplementOfResult ==
    /\ pc = "returned"
    /\ call.op = "reverse_complement"
    /\ ret.status = "ok"
    /\ LET r == reverse_complement(ret.value[1])
       IN  /\ call' = [NoCall EXCEPT !.op = "reverse_complement_twice"]
           /\ ret' = [MkRet(r) EXCEPT !.complements = ret.complements + r.complements]
    /\ UNCHANGED <<pc, heap, _motifs, self>>

IsReverseComplement ==
    /\ pc = "ready"
    /\ \E other \in Others :
         LET r == is_reverse_complement(self, other)
         IN  /\ self' = r.self
             /\ call' = [NoCall EXCEPT !.op = "is_reverse_complement", !.other = other]
             /\ ret' = MkRet(r)
    /\ pc' = "returned"
    /\ UNCHANGED <<heap, _motifs>>

(* The caller drops the returned value and is free to make another call. *)
Discard ==
    /\ pc = "returned"
    /\ pc' = "ready"
    /\ call' = NoCall
    /\ ret' = NoRet
    /\ UNCHANGED <<heap, _motifs, self>>

MotifNames == {"None", "purine-run", "pyrimidine-run", "nonexistent-motif"}

MinLengths == (1..MaxMinLength) \cup {DefaultMinLength}

FindMotifs ==
    /\ pc = "ready"
    /\ \E name \in MotifNames, min_length \in MinLengths :
         LET r == find_motifs(heap[_motifs], self, name, min_length)
         IN  /\ self' = r.self
             /\ call' = [NoCall EXCEPT !.op = "find_motifs", !.name = name,
                                       !.min_length = min_length]
             /\ ret' = MkRet(r)
    /\ pc' = "returned"
    /\ UNCHANGED <<heap, _motifs>>

Next ==
    \/ ModuleCopy
    \/ RegisterPurineRun
    \/ RegisterPyrimidineRun
    \/ Interpolate
    \/ Complement
    \/ ReverseComplement
    \/ ReverseComplementOfResult
    \/ IsReverseComplement
    \/ FindMotifs
    \/ Discard

Spec == Init /\ [][Next]_vars

SpecMotif == InitMotif /\ [][Next]_vars

-----------------------------------------------------------------------------
(* Properties *)

Keys(s) ==
    LET map == complement_map(s.variant)
    IN  IF map.kind = "dict" THEN DOMAIN map.entries ELSE {}

Valid(s) == Range(s.string) \subseteq Keys(s)

Entry(s, base) == complement_map(s.variant).entries[base]

ComplementReturned ==
    pc = "returned" /\ call.op \in {"complement", "reverse_complement"}

Reversed == call.op = "reverse_complement" \/ call.reverse

(* Position of the input that output position i is taken from *)
From(i) == IF Reversed THEN Len(self.string) + 1 - i ELSE i

(* C1: on a sequence whose symbols are all keys of complement_map,         *)
(* complement returns a sequence of the same length whose symbol at i is   *)
(* the complement of the input symbol at i (forward) or at n-1-i           *)
(* (reverse); reverse_complement returns what complement(reverse=True)     *)
(* returns.                                                                *)
C1_ComplementSymbols ==
    (ComplementReturned /\ Valid(self)) =>
        /\ ret.status = "ok"
        /\ Len(ret.value[1].string) = Len(self.string)
        /\ \A i \in 1..Len(self.string) :
             ret.value[1].string[i] = Entry(self, self.string[From(i)])
        /\ call.op = "reverse_complement" => ret = MkRet(complement(self, TRUE))

C1_Witness ==
    /\ ComplementReturned /\ call.op = "complement" /\ call.reverse
    /\ self.string = <<"A", "C">>
    /\ ret.status = "ok"
    /\ ret.value[1].string = <<"G", "T">>

(* C2: the quality of the result follows the symbols: reversed when        *)
(* reverse is true, position by position equal to the input's otherwise.   *)
C2_QualityLockstep ==
    (ComplementReturned /\ ret.status = "ok" /\ self.quality # None) =>
        /\ ret.value[1].quality # None
        /\ Len(ret.value[1].quality[1]) = Len(self.string)
        /\ \A i \in 1..Len(self.string) :
             ret.value[1].quality[1][i] = self.quality[1][From(i)]

C2_Witness ==
    /\ ComplementReturned /\ call.op = "reverse_complement"
    /\ self.quality = Some(<<0, 1>>)
    /\ ret.status = "ok"
    /\ ret.value[1].quality = Some(<<1, 0>>)

(* C3: the reverse complement of the reverse complement of a valid         *)
(* sequence has the symbols of the sequence.                               *)
C3_Involution ==
    (pc = "returned" /\ call.op = "reverse_complement_twice") =>
        /\ ret.status = "ok"
        /\ ret.value[1].string = self.string

C3_Witness ==
    /\ pc = "returned" /\ call.op = "reverse_complement_twice"
    /\ self.string = <<"A", "C">>
    /\ ret.status = "ok"
    /\ ret.complements = 2

IsReverseComplementReturned ==
    pc = "returned" /\ call.op = "is_reverse_complement"

Coercible == call.other.kind \in {"str", "Sequence"}

(* C4: is_reverse_complement returns False, raises nothing and computes no *)
(* complement when the other sequence has another length, whatever the     *)
(* other's content and whether or not the receiver can be complemented.    *)
C4_FastReject ==
    (IsReverseComplementReturned /\ Coercible
        /\ Len(call.other.string) # Len(self.string)) =>
        /\ ret.status = "ok"
        /\ ret.value = Some(FALSE)
        /\ ret.complements = 0

C4_Witness ==
    /\ IsReverseComplementReturned
    /\ self.variant = "DNA" /\ self.string = <<"A", "U">>
    /\ call.other.string = <<"!">>
    /\ ret.value = Some(FALSE)

(* C5: for a valid receiver and a coercible other of the same length,      *)
(* is_reverse_complement is true exactly when the other's symbols are the  *)
(* receiver's complemented symbols in reverse order; quality and metadata  *)
(* of either argument play no part.                                        *)
C5_IsReverseComplement ==
    (IsReverseComplementReturned /\ Coercible /\ Valid(self)
        /\ Len(call.other.string) = Len(self.string)) =>
        /\ ret.status = "ok"
        /\ ret.value[1] =
             (\A i \in 1..Len(self.string) :
                call.other.string[i] =
                    Entry(self, self.string[Len(self.string) + 1 - i]))

C5_Witness ==
    /\ IsReverseComplementReturned
    /\ self.string = <<"A", "C", "G", "T">>
    /\ call.other.kind = "Sequence" /\ call.other.string = <<"A", "C", "G", "T">>
    /\ ret.value = Some(TRUE)

(* C6: complement on a sequence with a symbol that has no entry in         *)
(* complement_map raises the lookup error (KeyError) for the first such    *)
(* symbol met and returns nothing; on the base family this is so for every *)
(* non-empty sequence.                                                     *)
C6_UndefinedComplement ==
    (ComplementReturned /\ ~Valid(self)) =>
        /\ ret.status = "KeyError"
        /\ ret.value = None
        /\ ret.key # None
        /\ ret.key[1] \notin Keys(self)

MaximalRuns(str, class, m) ==
    { span \in (0..Len(str)) \X (0..Len(str)) :
        /\ span[1] < span[2]
        /\ span[2] - span[1] >= m
        /\ \A k \in (span[1] + 1)..span[2] : str[k] \in class
        /\ span[1] = 0 \/ str[span[1]] \notin class
        /\ span[2] = Len(str) \/ str[span[2] + 1] \notin class }

Ascending(spans) ==
    \A i \in 1..(Len(spans) - 1) : spans[i][2] <= spans[i + 1][1]

FindMotifsReturned(name) ==
    pc = "returned" /\ call.op = "find_motifs" /\ call.name = name

(* C7: without exclusions and for min_length >= 1, purine-run yields       *)
(* exactly the maximal runs over {A, G, R} of at least min_length symbols  *)
(* and pyrimidine-run exactly those over {C, T, U, Y}: one half-open span  *)
(* per run, none twice, none split or shortened, no shorter run.           *)
C7_MaximalRuns ==
    /\ FindMotifsReturned("purine-run") =>
         /\ ret.status = "ok"
         /\ Ascending(ret.value[1])
         /\ Range(ret.value[1]) =
              MaximalRuns(self.string, {"A", "G", "R"}, call.min_length)
    /\ FindMotifsReturned("pyrimidine-run") =>
         /\ ret.status = "ok"
         /\ Ascending(ret.value[1])
         /\ Range(ret.value[1]) =
              MaximalRuns(self.string, {"C", "T", "U", "Y"}, call.min_length)

C7_Witness ==
    /\ FindMotifsReturned("purine-run")
    /\ call.min_length = 2
    /\ self.string = <<"C","C","A","A","A","A","N","Y","U","T","C">>
    /\ ret.value = Some(<< <<2, 6>> >>)

AGGGGGT == <<"A", "G", "G", "G", "G", "G", "T">>

(* C8 as stated: on "AGGGGGT" with min_length 4, purine-run yields one     *)
(* span, which covers 5 symbols, and pyrimidine-run yields none.           *)
C8_Original ==
    (pc = "returned" /\ call.op = "find_motifs" /\ self.string = AGGGGGT
        /\ call.min_length = 4) =>
        /\ call.name = "purine-run" =>
             /\ ret.status = "ok"
             /\ Len(ret.value[1]) = 1
             /\ ret.value[1][1][2] - ret.value[1][1][1] = 5
        /\ call.name = "pyrimidine-run" => ret.value = Some(<<>>)

(* C8: on "AGGGGGT" with min_length 4, purine-run yields the one span      *)
(* [0, 6), the 6-symbol run of A and G, and pyrimidine-run yields none.    *)
C8_Example ==
    (pc = "returned" /\ call.op = "find_motifs" /\ self.string = AGGGGGT
        /\ call.min_length = 4) =>
        /\ call.name = "purine-run" => ret.value = Some(<< <<0, 6>> >>)
        /\ call.name = "pyrimidine-run" => ret.value = Some(<<>>)

C8_Witness ==
    /\ FindMotifsReturned("purine-run")
    /\ self.string = AGGGGGT
    /\ call.min_length = 4
    /\ ret.status = "ok"
    /\ Len(ret.value[1]) = 1

(* C9: a complement call leaves the receiver as it was, and the sequence   *)
(* it returns has the receiver's variant, identifier and description.      *)
C9_Frame ==
    [][ (pc = "ready" /\ pc' = "returned"
            /\ call'.op \in {"complement", "reverse_complement"}) =>
          /\ self' = self
          /\ ret'.status = "ok" =>
               /\ ret'.value[1].variant = self.variant
               /\ ret'.value[1].id = self.id
               /\ ret'.value[1].description = self.description ]_vars

C9_Witness ==
    /\ ComplementReturned /\ call.reverse
    /\ self.id = "s" /\ self.quality = Some(<<0, 1>>)
    /\ ret.status = "ok"
    /\ ret.value[1].id = "s" /\ ret.value[1].description = "d"

(* C10: once both detectors are registered, the nucleotide registry is an  *)
(* object of its own holding the parent's entries followed by purine-run   *)
(* and pyrimidine-run, the parent registry holds neither, and no call      *)
(* changes either registry.                                                *)
C10_RegistryForked ==
    pc \in {"interpolate", "ready", "returned"} =>
        /\ _motifs # parent_motifs
        /\ heap[parent_motifs] = ParentRegistry
        /\ heap[_motifs] = ParentRegistry \o <<"purine-run", "pyrimidine-run">>
        /\ Range(heap[parent_motifs]) \cap {"purine-run", "pyrimidine-run"} = {}

C10_Witness ==
    /\ pc = "returned" /\ call.op = "find_motifs" /\ call.name = "None"
    /\ Len(heap[_motifs]) = 2
    /\ ret.status = "ok" /\ Len(ret.value[1]) = 2

====
